---- MODULE Spec2Model ----
(***************************************************************************)
(* Conway's Game of Life on a fixed-size toroidal grid: the class          *)
(* ConwaysGameOfLife<C, R> of include/conways_game_of_life/board.hpp.      *)
(*                                                                         *)
(* The two cell buffers grid1_ and grid2_ are functions from 0..C*R-1 to   *)
(* CellState; the shared pointers current_grid_ and next_grid_ are the     *)
(* names of the buffer objects they point to.                              *)
(***************************************************************************)
EXTENDS Integers, FiniteSets, Sequences, TLC

\* ------------------------------------------------------------------------
\* Bounds of the explored instances
\* ------------------------------------------------------------------------
\* Spec explores every template instance <C, R> with C*R <= MaxCells.
MaxCells == 4
\* SpecRaw explores every template instance <C, R> with C*R <= MaxRawCells.
MaxRawCells == 3
\* SpecStep explores every grid content of every instance with C*R <= MaxStepCells.
MaxStepCells == 9
\* SpecGlider explores every instance with 3 <= C, R <= MaxGliderDim.
MaxGliderDim == 8
\* The scenario specifications execute at most MaxSteps generations.
MaxSteps == 4
\* SpecBlock explores every instance with 4 <= C, R <= MaxBlockDim.
MaxBlockDim == 10
\* SpecTwin explores every template instance <C, R> with C*R <= MaxTwinCells.
MaxTwinCells == 4
\* SpecLoop explores every template instance <C, R> with C*R <= MaxLoopCells.
MaxLoopCells == 6
\* SpecOrder explores every template instance <C, R> with C*R <= MaxOrderCells.
MaxOrderCells == 4
\* SpecView explores every template instance <C, R> with C*R <= MaxViewCells.
MaxViewCells == 4

\* ------------------------------------------------------------------------
\* State
\* ------------------------------------------------------------------------
VARIABLES
  C,              \* template parameter: number of columns
  R,              \* template parameter: number of rows
  grid1_,         \* the vector grid1_ points to
  grid2_,         \* the vector grid2_ points to
  grid_,          \* which grid is current, toggles on each update
  current_grid_,  \* the buffer current_grid_ points to: "grid1_" or "grid2_"
  next_grid_,     \* the buffer next_grid_ points to
  pause_,         \* board updates are paused
  crashed,        \* the process was killed by an out-of-bounds store
  op,             \* history: the last member function called and its arguments
  toggled,        \* history: togglePause() has been called at least once
  steps,          \* history: unpaused update() calls of the running scenario
  first,          \* history: the buffer that was current when the scenario began
  seed,           \* history: pattern origin (ox, oy) and number k of its cells set
  loop,           \* position of an update() call in progress: pc and the counters x, y
  track,          \* history: cells evaluated and stores made by the update() in progress
  view,           \* the buffer a pointer returned by getGrid() points to, held by the caller
  twin,           \* a second engine that receives the same calls
  ref,            \* history: the single-grid reference machine run on the same calls
  snap            \* history: the program state before the togglePause() just called,
                  \* or before the update() in progress

progVars == <<C, R, grid1_, grid2_, grid_, current_grid_, next_grid_, pause_, crashed>>
histVars == <<op, toggled, steps, first, seed, track, ref, snap>>
vars == <<C, R, grid1_, grid2_, grid_, current_grid_, next_grid_, pause_, crashed,
          op, toggled, steps, first, seed, loop, track, view, twin, ref, snap>>

\* enum CellState { ON, OFF }
ON == 0
OFF == 1
CellState == {ON, OFF}

\* ------------------------------------------------------------------------
\* Helpers
\* ------------------------------------------------------------------------
\* util.hpp, convert_indices(x, y, cols): (x, y) coordinates to 1D array index.
convert_indices(x, y, cols) == x + y * cols

\* std::make_shared<std::vector<CellState>>(n): n value-initialized elements,
\* that is CellState(0).
make_shared_vector(n) == [i \in 0 .. n - 1 |-> 0]

\* grid_ ? grid1_ : grid2_
SelectCurrent(g) == IF g THEN "grid1_" ELSE "grid2_"

\* Mutation of SelectNext: the next generation is written into the current
\* buffer, a single-buffered engine.
SelectNext_single_buffer(g) == IF g THEN "grid1_" ELSE "grid2_"

\* grid_ ? grid2_ : grid1_
SelectNext(g) == IF g THEN "grid2_" ELSE "grid1_"

\* The pair of buffer objects, by name, and the two pointers into it.
Heap ==
  [grid1_ |-> grid1_, grid2_ |-> grid2_,
   current_grid_ |-> current_grid_, next_grid_ |-> next_grid_]

\* The body of clear()'s loop applied to one buffer.
clearLoop(g) == [i \in DOMAIN g |-> IF i \in 0 .. C * R - 1 THEN OFF ELSE g[i]]

\* Mutation of wrap: the coordinate is clamped to the edge instead of wrapped.
wrap_clamped(v, size) ==
  LET n0 == v
      n1 == IF v < 0 THEN 0 ELSE n0
      n2 == IF v >= size THEN size - 1 ELSE n1
  IN  n2

\* Mutation of wrap: the upper test is v > size instead of v >= size.
wrap_past_the_edge(v, size) ==
  LET n0 == v
      n1 == IF v < 0 THEN size - 1 ELSE n0
      n2 == IF v > size THEN 0 ELSE n1
  IN  n2

\* x + x_off wrapped as countAliveNeighbors wraps it (size is C or R).
wrap(v, size) ==
  LET n0 == v
      n1 == IF v < 0 THEN size - 1 ELSE n0
      n2 == IF v >= size THEN 0 ELSE n1
  IN  n2

Offsets == {-1, 0, 1}

\* Mutation of countAliveNeighbors: the cell itself is not skipped.
countAliveNeighbors_counting_self(g, x, y) ==
  Cardinality({ o \in Offsets \X Offsets :
                  g[convert_indices(wrap(x + o[1], C), wrap(y + o[2], R), C)] = ON })

\* Mutation of countAliveNeighbors: every distinct neighbouring cell is
\* counted once, and the cell itself never.
countAliveNeighbors_distinct_cells(g, x, y) ==
  Cardinality({ i \in { convert_indices(wrap(x + o[1], C), wrap(y + o[2], R), C) :
                          o \in Offsets \X Offsets } \ {convert_indices(x, y, C)} :
                  g[i] = ON })

\* countAliveNeighbors(x, y), reading the buffer g.
countAliveNeighbors(g, x, y) ==
  Cardinality({ o \in Offsets \X Offsets :
                  /\ ~(o[1] = 0 /\ o[2] = 0)
                  /\ g[convert_indices(wrap(x + o[1], C), wrap(y + o[2], R), C)] = ON })

\* Mutation of updateCell: the death rule tests alive < 1 instead of alive <= 1.
updateCell_lonely_survives(h, x, y) ==
  LET index == convert_indices(x, y, C)
      alive == countAliveNeighbors(h[h.current_grid_], x, y)
      cur   == h[h.current_grid_][index]
      h1    == [h EXCEPT ![h.next_grid_][index] = cur]
  IN  IF cur = OFF
        THEN IF alive = 3 THEN [h1 EXCEPT ![h.next_grid_][index] = ON] ELSE h1
        ELSE IF cur = ON
          THEN IF alive < 1 \/ alive >= 4
                 THEN [h1 EXCEPT ![h.next_grid_][index] = OFF]
                 ELSE h1
          ELSE h1

\* Mutation of updateCell: the cell is not copied before the rules are
\* applied, so a cell that no rule changes keeps what the next buffer held.
updateCell_without_copy(h, x, y) ==
  LET index == convert_indices(x, y, C)
      alive == countAliveNeighbors(h[h.current_grid_], x, y)
      cur   == h[h.current_grid_][index]
      h1    == h
  IN  IF cur = OFF
        THEN IF alive = 3 THEN [h1 EXCEPT ![h.next_grid_][index] = ON] ELSE h1
        ELSE IF cur = ON
          THEN IF alive <= 1 \/ alive >= 4
                 THEN [h1 EXCEPT ![h.next_grid_][index] = OFF]
                 ELSE h1
          ELSE h1

\* Mutation of updateCell: the rules test the cell of the next buffer
\* instead of the cell of the current buffer.
updateCell_testing_next(h, x, y) ==
  LET index == convert_indices(x, y, C)
      alive == countAliveNeighbors(h[h.current_grid_], x, y)
      cur   == h[h.next_grid_][index]
      h1    == [h EXCEPT ![h.next_grid_][index] = h[h.current_grid_][index]]
  IN  IF cur = OFF
        THEN IF alive = 3 THEN [h1 EXCEPT ![h.next_grid_][index] = ON] ELSE h1
        ELSE IF cur = ON
          THEN IF alive <= 1 \/ alive >= 4
                 THEN [h1 EXCEPT ![h.next_grid_][index] = OFF]
                 ELSE h1
          ELSE h1

\* Mutation of updateCell: the death rule tests alive >= 3 instead of alive >= 4.
updateCell_crowded_at_three(h, x, y) ==
  LET index == convert_indices(x, y, C)
      alive == countAliveNeighbors(h[h.current_grid_], x, y)
      cur   == h[h.current_grid_][index]
      h1    == [h EXCEPT ![h.next_grid_][index] = cur]
  IN  IF cur = OFF
        THEN IF alive = 3 THEN [h1 EXCEPT ![h.next_grid_][index] = ON] ELSE h1
        ELSE IF cur = ON
          THEN IF alive <= 1 \/ alive >= 3
                 THEN [h1 EXCEPT ![h.next_grid_][index] = OFF]
                 ELSE h1
          ELSE h1

\* One iteration of update()'s loop body for cell (x, y) on the buffers h.
updateCell(h, x, y) ==
  LET index == convert_indices(x, y, C)
      alive == countAliveNeighbors(h[h.current_grid_], x, y)
      cur   == h[h.current_grid_][index]
      h1    == [h EXCEPT ![h.next_grid_][index] = cur]
  IN  IF cur = OFF
        THEN IF alive = 3 THEN [h1 EXCEPT ![h.next_grid_][index] = ON] ELSE h1
        ELSE IF cur = ON
          THEN IF alive <= 1 \/ alive >= 4
                 THEN [h1 EXCEPT ![h.next_grid_][index] = OFF]
                 ELSE h1
          ELSE h1

\* The number of stores into (*next_grid_)[index] one iteration of the loop
\* body makes for cell (x, y): the copy, and the result of a rule that fires.
storesOf(h, x, y) ==
  LET index == convert_indices(x, y, C)
      alive == countAliveNeighbors(h[h.current_grid_], x, y)
      cur   == h[h.current_grid_][index]
  IN  1 + (IF cur = OFF
             THEN IF alive = 3 THEN 1 ELSE 0
             ELSE IF cur = ON
               THEN IF alive <= 1 \/ alive >= 4 THEN 1 ELSE 0
               ELSE 0)

\* The buffer cells one iteration of the loop body reads for cell (x, y):
\* the cell itself and the targets of the 8 offsets, all through current_grid_.
readsOf(h, x, y) ==
  { <<h.current_grid_, convert_indices(x, y, C)>> } \cup
  { <<h.current_grid_, convert_indices(wrap(x + o[1], C), wrap(y + o[2], R), C)>> :
      o \in (Offsets \X Offsets) \ {<<0, 0>>} }

\* TLC hands an operator its arguments unevaluated; a loop that tests
\* Evaluated(h) before it goes on evaluates each intermediate heap when it
\* is produced, which keeps the evaluation depth at C + R.
Evaluated(h) == h = h

\* update()'s inner loop, for (int y ...; y < R; y++), for column x.
RECURSIVE updateLoopY(_, _, _)
updateLoopY(h, x, y) ==
  IF y < R /\ Evaluated(h)
    THEN updateLoopY(updateCell(h, x, y), x, y + 1)
    ELSE h

\* update()'s outer loop, for (int x ...; x < C; x++).
RECURSIVE updateLoopX(_, _)
updateLoopX(h, x) ==
  IF x < C /\ Evaluated(h)
    THEN updateLoopX(updateLoopY(h, x, 0), x + 1)
    ELSE h

\* (*p)[index] = v on a std::vector of C*R elements.  operator[] does not
\* check its index: a store outside 0..C*R-1 is undefined behaviour, which
\* may hit nothing observable, kill the process, or land in either buffer.
Store(p, index, v) ==
  IF index \in 0 .. C * R - 1
    THEN /\ grid1_' = IF p = "grid1_" THEN [grid1_ EXCEPT ![index] = v] ELSE grid1_
         /\ grid2_' = IF p = "grid2_" THEN [grid2_ EXCEPT ![index] = v] ELSE grid2_
         /\ crashed' = crashed
    ELSE \/ UNCHANGED <<grid1_, grid2_, crashed>>
         \/ crashed' = TRUE /\ UNCHANGED <<grid1_, grid2_>>
         \/ \E i \in 0 .. C * R - 1 :
              \/ grid1_' = [grid1_ EXCEPT ![i] = v] /\ UNCHANGED <<grid2_, crashed>>
              \/ grid2_' = [grid2_ EXCEPT ![i] = v] /\ UNCHANGED <<grid1_, crashed>>

\* ------------------------------------------------------------------------
\* Member functions, on the program state
\* ------------------------------------------------------------------------
\* Mutation of setCell: the store goes to the buffer of the next generation.
setCell_into_next(x, y) ==
  /\ ~crashed
  /\ Store(next_grid_, convert_indices(x, y, C), ON)
  /\ UNCHANGED <<C, R, grid_, current_grid_, next_grid_, pause_>>

\* Mutation of clear: only the current buffer is reset.
clear_current_only ==
  /\ ~crashed
  /\ grid1_' = IF current_grid_ = "grid1_" THEN clearLoop(grid1_) ELSE grid1_
  /\ grid2_' = IF current_grid_ = "grid2_" THEN clearLoop(grid2_) ELSE grid2_
  /\ UNCHANGED <<C, R, grid_, current_grid_, next_grid_, pause_, crashed>>

\* Mutation of update: the early return on pause_ is missing.
update_ignoring_pause ==
  /\ ~crashed
  /\ LET h == updateLoopX(Heap, 0) IN
       /\ grid1_' = h["grid1_"]
       /\ grid2_' = h["grid2_"]
       /\ grid_' = ~grid_
       /\ current_grid_' = SelectCurrent(~grid_)
       /\ next_grid_' = SelectNext(~grid_)
  /\ UNCHANGED <<C, R, pause_, crashed>>

\* Mutation of update: the generation is computed but the roles are not swapped.
update_without_swap ==
  /\ ~crashed
  /\ IF pause_
       THEN UNCHANGED <<grid1_, grid2_, grid_, current_grid_, next_grid_>>
       ELSE LET h == updateLoopX(Heap, 0) IN
            /\ grid1_' = h["grid1_"]
            /\ grid2_' = h["grid2_"]
            /\ UNCHANGED <<grid_, current_grid_, next_grid_>>
  /\ UNCHANGED <<C, R, pause_, crashed>>

\* Mutation of update: the roles stay and the contents of the two vectors
\* are exchanged instead.
update_swapping_contents ==
  /\ ~crashed
  /\ IF pause_
       THEN UNCHANGED <<grid1_, grid2_, grid_, current_grid_, next_grid_>>
       ELSE LET h == updateLoopX(Heap, 0) IN
            /\ grid1_' = h["grid2_"]
            /\ grid2_' = h["grid1_"]
            /\ UNCHANGED <<grid_, current_grid_, next_grid_>>
  /\ UNCHANGED <<C, R, pause_, crashed>>

\* Mutation of the constructor: the closing clear() is missing.
Constructed_without_clear(c, r) ==
  /\ C = c
  /\ R = r
  /\ grid1_ = make_shared_vector(c * r)
  /\ grid2_ = make_shared_vector(c * r)
  /\ pause_ = TRUE
  /\ grid_ = FALSE
  /\ current_grid_ = SelectCurrent(FALSE)
  /\ next_grid_ = SelectNext(FALSE)
  /\ crashed = FALSE

\* Mutation of togglePause: the flag is cleared instead of negated.
togglePause_unpause_only ==
  /\ ~crashed
  /\ pause_' = FALSE
  /\ UNCHANGED <<C, R, grid1_, grid2_, grid_, current_grid_, next_grid_, crashed>>

togglePause ==
  /\ ~crashed
  /\ pause_' = ~pause_
  /\ UNCHANGED <<C, R, grid1_, grid2_, grid_, current_grid_, next_grid_, crashed>>

setCell(x, y) ==
  /\ ~crashed
  /\ Store(current_grid_, convert_indices(x, y, C), ON)
  /\ UNCHANGED <<C, R, grid_, current_grid_, next_grid_, pause_>>

unsetCell(x, y) ==
  /\ ~crashed
  /\ Store(current_grid_, convert_indices(x, y, C), OFF)
  /\ UNCHANGED <<C, R, grid_, current_grid_, next_grid_, pause_>>

clear ==
  /\ ~crashed
  /\ grid1_' = clearLoop(grid1_)
  /\ grid2_' = clearLoop(grid2_)
  /\ UNCHANGED <<C, R, grid_, current_grid_, next_grid_, pause_, crashed>>

update ==
  /\ ~crashed
  /\ IF pause_
       THEN UNCHANGED <<grid1_, grid2_, grid_, current_grid_, next_grid_>>
       ELSE LET h == updateLoopX(Heap, 0) IN
            /\ grid1_' = h["grid1_"]
            /\ grid2_' = h["grid2_"]
            /\ grid_' = ~grid_
            /\ current_grid_' = SelectCurrent(~grid_)
            /\ next_grid_' = SelectNext(~grid_)
  /\ UNCHANGED <<C, R, pause_, crashed>>

\* getGrid() returns a copy of the pointer current_grid_; the caller holds it.
getGrid ==
  /\ ~crashed
  /\ view' = current_grid_
  /\ UNCHANGED progVars

\* The state the constructor leaves for the instance <c, r>.
Constructed(c, r) ==
  /\ C = c
  /\ R = r
  /\ grid1_ = clearLoop(make_shared_vector(c * r))
  /\ grid2_ = clearLoop(make_shared_vector(c * r))
  /\ pause_ = TRUE
  /\ grid_ = FALSE
  /\ current_grid_ = SelectCurrent(FALSE)
  /\ next_grid_ = SelectNext(FALSE)
  /\ crashed = FALSE

\* ------------------------------------------------------------------------
\* Reference semantics the claims are stated against
\* ------------------------------------------------------------------------
AllOff(g) == \A i \in DOMAIN g : g[i] = OFF

Cells == 0 .. C * R - 1

\* Number of the 8 offsets (dx, dy) whose target ((x+dx) mod C, (y+dy) mod R)
\* is ALIVE in g.
RefNeighbours(g, x, y) ==
  Cardinality({ o \in (Offsets \X Offsets) \ {<<0, 0>>} :
                  g[((x + o[1]) % C) + ((y + o[2]) % R) * C] = ON })

\* The Life successor of g on the C x R torus.
RefLife(g) ==
  [i \in Cells |->
     LET n == RefNeighbours(g, i % C, i \div C)
     IN  IF (g[i] = OFF /\ n = 3) \/ (g[i] = ON /\ n \in {2, 3}) THEN ON ELSE OFF]

\* The single-grid reference machine: one grid and a paused flag.
RefConstructed == [grid |-> [i \in Cells |-> OFF], paused |-> TRUE]

RefStore(m, x, y, v) == [m EXCEPT !.grid[x + y * C] = v]

RefClear(m) == [m EXCEPT !.grid = [i \in Cells |-> OFF]]

RefTogglePause(m) == [m EXCEPT !.paused = ~m.paused]

RefUpdate(m) == IF m.paused THEN m ELSE [m EXCEPT !.grid = RefLife(m.grid)]

\* ------------------------------------------------------------------------
\* Values of the variables a specification does not use
\* ------------------------------------------------------------------------
Buffers == {"grid1_", "grid2_"}

\* No update() call is in progress.
Idle == [pc |-> "idle", x |-> 0, y |-> 0]

\* No cell evaluated and no store made: the number of evaluations of each
\* cell and the number of stores into each cell of each buffer.
NoTrack == [evaluated |-> [i \in Cells |-> 0], stores |-> [s \in Buffers \X Cells |-> 0]]

NoTwin == [present |-> FALSE]

\* The program state as one value.
Program ==
  [grid1_ |-> grid1_, grid2_ |-> grid2_, grid_ |-> grid_,
   current_grid_ |-> current_grid_, next_grid_ |-> next_grid_, pause_ |-> pause_]

NoSnap == [taken |-> FALSE, after |-> "none", state |-> <<>>]

\* The program state now, and the call it results from.
Snapshot == [taken |-> TRUE, after |-> op.name, state |-> Program]

NoAux ==
  /\ loop = Idle
  /\ track = NoTrack
  /\ view = "none"
  /\ twin = NoTwin
  /\ snap = NoSnap

\* The reference machine holds what the engine shows.
RefStart == ref = [grid |-> Heap[current_grid_], paused |-> pause_]

auxVars == <<loop, track, view, twin>>

NoScenario ==
  /\ steps = 0
  /\ first = "none"
  /\ seed = [ox |-> 0, oy |-> 0, k |-> 0]
  /\ NoAux

\* ------------------------------------------------------------------------
\* Spec: every call sequence with in-range coordinates
\* ------------------------------------------------------------------------
Call(name, x, y) == [name |-> name, x |-> x, y |-> y]

\* The constructor has run for some instance of at most n cells.
InitUpTo(n) ==
  /\ \E c \in 1 .. n, r \in 1 .. n : c * r <= n /\ Constructed(c, r)
  /\ op = Call("init", 0, 0)
  /\ toggled = FALSE
  /\ NoScenario
  /\ ref = RefConstructed

Init == InitUpTo(MaxCells)

CallTogglePause ==
  /\ togglePause
  /\ op' = Call("togglePause", 0, 0)
  /\ toggled' = TRUE
  /\ ref' = RefTogglePause(ref)
  /\ snap' = Snapshot
  /\ UNCHANGED <<steps, first, seed, auxVars>>

CallSetCell ==
  /\ \E x \in 0 .. C - 1, y \in 0 .. R - 1 :
       setCell(x, y) /\ op' = Call("setCell", x, y) /\ ref' = RefStore(ref, x, y, ON)
  /\ snap' = NoSnap
  /\ UNCHANGED <<toggled, steps, first, seed, auxVars>>

CallUnsetCell ==
  /\ \E x \in 0 .. C - 1, y \in 0 .. R - 1 :
       unsetCell(x, y) /\ op' = Call("unsetCell", x, y) /\ ref' = RefStore(ref, x, y, OFF)
  /\ snap' = NoSnap
  /\ UNCHANGED <<toggled, steps, first, seed, auxVars>>

CallClear ==
  /\ clear
  /\ op' = Call("clear", 0, 0)
  /\ ref' = RefClear(ref)
  /\ snap' = NoSnap
  /\ UNCHANGED <<toggled, steps, first, seed, auxVars>>

CallUpdate ==
  /\ update
  /\ op' = Call("update", 0, 0)
  /\ ref' = RefUpdate(ref)
  /\ snap' = NoSnap
  /\ UNCHANGED <<toggled, steps, first, seed, auxVars>>

Next ==
  \/ CallTogglePause
  \/ CallSetCell
  \/ CallUnsetCell
  \/ CallClear
  \/ CallUpdate

Spec == Init /\ [][Next]_vars

\* ------------------------------------------------------------------------
\* SpecRaw: as Spec, and the caller may also pass coordinates out of range
\* ------------------------------------------------------------------------
InRange(x, y) == x \in 0 .. C - 1 /\ y \in 0 .. R - 1

\* The reference machine has no counterpart of a call out of range: it goes
\* on from what the engine shows after the call.
CallSetCellRaw ==
  /\ \E x \in -1 .. C, y \in -1 .. R :
       ~InRange(x, y) /\ setCell(x, y) /\ op' = Call("setCell", x, y)
  /\ ref' = [grid |-> Heap'[current_grid_'], paused |-> pause_']
  /\ snap' = NoSnap
  /\ UNCHANGED <<toggled, steps, first, seed, auxVars>>

CallUnsetCellRaw ==
  /\ \E x \in -1 .. C, y \in -1 .. R :
       ~InRange(x, y) /\ unsetCell(x, y) /\ op' = Call("unsetCell", x, y)
  /\ ref' = [grid |-> Heap'[current_grid_'], paused |-> pause_']
  /\ snap' = NoSnap
  /\ UNCHANGED <<toggled, steps, first, seed, auxVars>>

NextRaw ==
  \/ Next
  \/ CallSetCellRaw
  \/ CallUnsetCellRaw

InitRaw == InitUpTo(MaxRawCells)

SpecRaw == InitRaw /\ [][NextRaw]_vars

\* ------------------------------------------------------------------------
\* SpecStep: update() applied to every content of the current grid
\* ------------------------------------------------------------------------
\* Every content of the current buffer can be set cell by cell; the inactive
\* buffer is entirely DEAD (as after clear()) or entirely ALIVE (the old
\* generation after a full grid died in one step), under either role
\* assignment; the engine has been unpaused.
InitStep ==
  /\ \E c \in 1 .. MaxStepCells, r \in 1 .. MaxStepCells :
       c * r <= MaxStepCells /\ C = c /\ R = r
  /\ grid_ \in BOOLEAN
  /\ current_grid_ = SelectCurrent(grid_)
  /\ next_grid_ = SelectNext(grid_)
  /\ \E cur \in [0 .. C * R - 1 -> CellState], stale \in CellState :
       /\ grid1_ = IF current_grid_ = "grid1_" THEN cur ELSE [i \in 0 .. C * R - 1 |-> stale]
       /\ grid2_ = IF current_grid_ = "grid2_" THEN cur ELSE [i \in 0 .. C * R - 1 |-> stale]
  /\ pause_ = FALSE
  /\ crashed = FALSE
  /\ op = Call("setup", 0, 0)
  /\ toggled = TRUE
  /\ steps = 0
  /\ first = current_grid_
  /\ seed = [ox |-> 0, oy |-> 0, k |-> 0]
  /\ NoAux
  /\ RefStart

StepUpdate ==
  /\ steps < MaxSteps
  /\ update
  /\ op' = Call("update", 0, 0)
  /\ steps' = IF pause_ THEN steps ELSE steps + 1
  /\ ref' = RefUpdate(ref)
  /\ UNCHANGED <<toggled, first, seed, auxVars, snap>>

NextStep == StepUpdate

SpecStep == InitStep /\ [][NextStep]_vars

\* ------------------------------------------------------------------------
\* SpecGlider: construct, seed the glider at (ox, oy), unpause, step
\* ------------------------------------------------------------------------
\* The classic 5-cell glider.
Glider == << <<1, 0>>, <<2, 1>>, <<0, 2>>, <<1, 2>>, <<2, 2>> >>

InitGlider ==
  /\ \E c \in 3 .. MaxGliderDim, r \in 3 .. MaxGliderDim : Constructed(c, r)
  /\ op = Call("init", 0, 0)
  /\ toggled = FALSE
  /\ steps = 0
  /\ first = current_grid_
  /\ \E ox \in 0 .. C - 1, oy \in 0 .. R - 1 : seed = [ox |-> ox, oy |-> oy, k |-> 0]
  /\ NoAux
  /\ RefStart

GliderSeed ==
  /\ seed.k < Len(Glider)
  /\ LET x == (Glider[seed.k + 1][1] + seed.ox) % C
         y == (Glider[seed.k + 1][2] + seed.oy) % R
     IN  setCell(x, y) /\ op' = Call("setCell", x, y) /\ ref' = RefStore(ref, x, y, ON)
  /\ seed' = [seed EXCEPT !.k = @ + 1]
  /\ UNCHANGED <<toggled, steps, first, auxVars, snap>>

GliderStart ==
  /\ seed.k = Len(Glider)
  /\ pause_
  /\ togglePause
  /\ op' = Call("togglePause", 0, 0)
  /\ toggled' = TRUE
  /\ ref' = RefTogglePause(ref)
  /\ UNCHANGED <<steps, first, seed, auxVars, snap>>

GliderStep ==
  /\ seed.k = Len(Glider)
  /\ ~pause_
  /\ steps < MaxSteps
  /\ update
  /\ op' = Call("update", 0, 0)
  /\ steps' = steps + 1
  /\ ref' = RefUpdate(ref)
  /\ UNCHANGED <<toggled, first, seed, auxVars, snap>>

NextGlider ==
  \/ GliderSeed
  \/ GliderStart
  \/ GliderStep

SpecGlider == InitGlider /\ [][NextGlider]_vars

\* ------------------------------------------------------------------------
\* SpecBlock: construct, seed the 2x2 block at (ox, oy), unpause, step
\* ------------------------------------------------------------------------
\* The 2x2 block still life.
Block == << <<0, 0>>, <<1, 0>>, <<0, 1>>, <<1, 1>> >>

InitBlock ==
  /\ \E c \in 4 .. MaxBlockDim, r \in 4 .. MaxBlockDim : Constructed(c, r)
  /\ op = Call("init", 0, 0)
  /\ toggled = FALSE
  /\ steps = 0
  /\ first = current_grid_
  /\ \E ox \in 0 .. C - 1, oy \in 0 .. R - 1 : seed = [ox |-> ox, oy |-> oy, k |-> 0]
  /\ NoAux
  /\ RefStart

BlockSeed ==
  /\ seed.k < Len(Block)
  /\ LET x == (Block[seed.k + 1][1] + seed.ox) % C
         y == (Block[seed.k + 1][2] + seed.oy) % R
     IN  setCell(x, y) /\ op' = Call("setCell", x, y) /\ ref' = RefStore(ref, x, y, ON)
  /\ seed' = [seed EXCEPT !.k = @ + 1]
  /\ UNCHANGED <<toggled, steps, first, auxVars, snap>>

BlockStart ==
  /\ seed.k = Len(Block)
  /\ pause_
  /\ togglePause
  /\ op' = Call("togglePause", 0, 0)
  /\ toggled' = TRUE
  /\ ref' = RefTogglePause(ref)
  /\ UNCHANGED <<steps, first, seed, auxVars, snap>>

BlockStep ==
  /\ seed.k = Len(Block)
  /\ ~pause_
  /\ steps < MaxSteps
  /\ update
  /\ op' = Call("update", 0, 0)
  /\ steps' = steps + 1
  /\ ref' = RefUpdate(ref)
  /\ UNCHANGED <<toggled, first, seed, auxVars, snap>>

NextBlock ==
  \/ BlockSeed
  \/ BlockStart
  \/ BlockStep

SpecBlock == InitBlock /\ [][NextBlock]_vars

\* ------------------------------------------------------------------------
\* SpecTwin: two engines of one instance receive the same calls
\* ------------------------------------------------------------------------
\* The member functions on an engine e given as a value: a record of the
\* fields grid1_, grid2_, grid_, current_grid_, next_grid_ and pause_.
togglePauseOf(e) == [e EXCEPT !.pause_ = ~e.pause_]

\* setCell and unsetCell with coordinates in range.
storeOf(e, x, y, v) == [e EXCEPT ![e.current_grid_][convert_indices(x, y, C)] = v]

clearOf(e) == [e EXCEPT !.grid1_ = clearLoop(e.grid1_), !.grid2_ = clearLoop(e.grid2_)]

updateOf(e) ==
  IF e.pause_
    THEN e
    ELSE LET h == updateLoopX(e, 0) IN
         [h EXCEPT !.grid_ = ~e.grid_,
                   !.current_grid_ = SelectCurrent(~e.grid_),
                   !.next_grid_ = SelectNext(~e.grid_)]

\* A content of the inactive buffer: entirely ALIVE or entirely DEAD.
Stale(v) == [i \in 0 .. C * R - 1 |-> v]

\* Both engines show the same current grid and the same paused flag; the
\* role assignments and the contents of the inactive buffers are free.
InitTwin ==
  /\ \E c \in 1 .. MaxTwinCells, r \in 1 .. MaxTwinCells :
       c * r <= MaxTwinCells /\ C = c /\ R = r
  /\ grid_ \in BOOLEAN
  /\ current_grid_ = SelectCurrent(grid_)
  /\ next_grid_ = SelectNext(grid_)
  /\ pause_ \in BOOLEAN
  /\ \E cur \in [0 .. C * R - 1 -> CellState], s1 \in CellState, s2 \in CellState, g \in BOOLEAN :
       /\ grid1_ = IF current_grid_ = "grid1_" THEN cur ELSE Stale(s1)
       /\ grid2_ = IF current_grid_ = "grid2_" THEN cur ELSE Stale(s1)
       /\ twin = [present |-> TRUE,
                  grid1_ |-> IF g THEN cur ELSE Stale(s2),
                  grid2_ |-> IF g THEN Stale(s2) ELSE cur,
                  grid_ |-> g,
                  current_grid_ |-> SelectCurrent(g),
                  next_grid_ |-> SelectNext(g),
                  pause_ |-> pause_]
  /\ crashed = FALSE
  /\ op = Call("setup", 0, 0)
  /\ toggled = FALSE
  /\ steps = 0
  /\ first = current_grid_
  /\ seed = [ox |-> 0, oy |-> 0, k |-> 0]
  /\ loop = Idle
  /\ track = NoTrack
  /\ view = "none"
  /\ snap = NoSnap
  /\ RefStart

TwinTogglePause ==
  /\ togglePause
  /\ twin' = togglePauseOf(twin)
  /\ op' = Call("togglePause", 0, 0)
  /\ toggled' = TRUE
  /\ ref' = RefTogglePause(ref)
  /\ UNCHANGED <<steps, first, seed, loop, track, view, snap>>

TwinSetCell ==
  /\ \E x \in 0 .. C - 1, y \in 0 .. R - 1 :
       /\ setCell(x, y)
       /\ twin' = storeOf(twin, x, y, ON)
       /\ op' = Call("setCell", x, y)
       /\ ref' = RefStore(ref, x, y, ON)
  /\ UNCHANGED <<toggled, steps, first, seed, loop, track, view, snap>>

TwinUnsetCell ==
  /\ \E x \in 0 .. C - 1, y \in 0 .. R - 1 :
       /\ unsetCell(x, y)
       /\ twin' = storeOf(twin, x, y, OFF)
       /\ op' = Call("unsetCell", x, y)
       /\ ref' = RefStore(ref, x, y, OFF)
  /\ UNCHANGED <<toggled, steps, first, seed, loop, track, view, snap>>

TwinClear ==
  /\ clear
  /\ twin' = clearOf(twin)
  /\ op' = Call("clear", 0, 0)
  /\ ref' = RefClear(ref)
  /\ UNCHANGED <<toggled, steps, first, seed, loop, track, view, snap>>

TwinUpdate ==
  /\ update
  /\ twin' = updateOf(twin)
  /\ op' = Call("update", 0, 0)
  /\ ref' = RefUpdate(ref)
  /\ UNCHANGED <<toggled, steps, first, seed, loop, track, view, snap>>

NextTwin ==
  \/ TwinTogglePause
  \/ TwinSetCell
  \/ TwinUnsetCell
  \/ TwinClear
  \/ TwinUpdate

SpecTwin == InitTwin /\ [][NextTwin]_vars

\* ------------------------------------------------------------------------
\* SpecLoop: update() executed one loop iteration at a time
\* ------------------------------------------------------------------------
InitCells(n) ==
  /\ \E c \in 1 .. n, r \in 1 .. n : c * r <= n /\ C = c /\ R = r
  /\ grid_ \in BOOLEAN
  /\ current_grid_ = SelectCurrent(grid_)
  /\ next_grid_ = SelectNext(grid_)
  /\ \E cur \in [0 .. C * R - 1 -> CellState], stale \in CellState :
       /\ grid1_ = IF current_grid_ = "grid1_" THEN cur ELSE Stale(stale)
       /\ grid2_ = IF current_grid_ = "grid2_" THEN cur ELSE Stale(stale)
  /\ pause_ \in BOOLEAN
  /\ crashed = FALSE
  /\ op = Call("setup", 0, 0)
  /\ toggled = FALSE
  /\ steps = 0
  /\ first = current_grid_
  /\ seed = [ox |-> 0, oy |-> 0, k |-> 0]
  /\ NoAux
  /\ RefStart

InitLoop == InitCells(MaxLoopCells)

\* update() is called: if (pause_) { return; }, else the loops begin.
UpdateCalled ==
  /\ ~crashed
  /\ loop.pc = "idle"
  /\ steps < MaxSteps
  /\ op' = Call("update", 0, 0)
  /\ IF pause_
       THEN UNCHANGED <<loop, track, snap>>
       ELSE /\ loop' = [pc |-> "cells", x |-> 0, y |-> 0]
            /\ track' = NoTrack
            /\ snap' = Snapshot
  /\ UNCHANGED <<progVars, toggled, steps, first, seed, view, twin, ref>>

\* One iteration of the loop body, for cell (x, y).
EvaluateCell(x, y) ==
  LET h == updateCell(Heap, x, y)
      index == convert_indices(x, y, C)
  IN  /\ grid1_' = h.grid1_
      /\ grid2_' = h.grid2_
      /\ track' = [evaluated |-> [track.evaluated EXCEPT ![index] = @ + 1],
                   stores |-> [track.stores EXCEPT ![<<next_grid_, index>>]
                                                     = @ + storesOf(Heap, x, y)]]
      /\ UNCHANGED <<C, R, grid_, current_grid_, next_grid_, pause_, crashed>>

\* Mutation of Advance: the inner loop of every column after the first
\* starts at y = 1.
Advance_from_second_row(l) ==
  IF l.y + 1 < R
    THEN [l EXCEPT !.y = l.y + 1]
    ELSE [l EXCEPT !.x = l.x + 1, !.y = IF R > 1 THEN 1 ELSE 0]

\* y++ of the inner loop; at y = R the inner loop ends, x++ of the outer
\* loop, and the inner loop starts again at y = 0.
Advance(l) ==
  IF l.y + 1 < R
    THEN [l EXCEPT !.y = l.y + 1]
    ELSE [l EXCEPT !.x = l.x + 1, !.y = 0]

LoopCell ==
  /\ loop.pc = "cells"
  /\ loop.x < C
  /\ EvaluateCell(loop.x, loop.y)
  /\ loop' = Advance(loop)
  /\ UNCHANGED <<op, toggled, steps, first, seed, view, twin, ref, snap>>

\* Swap which grid we're modifying.
SwapRoles ==
  /\ grid_' = ~grid_
  /\ current_grid_' = SelectCurrent(~grid_)
  /\ next_grid_' = SelectNext(~grid_)
  /\ UNCHANGED <<C, R, grid1_, grid2_, pause_, crashed>>

LoopSwap ==
  /\ loop.pc = "cells"
  /\ ~(loop.x < C)
  /\ SwapRoles
  /\ loop' = Idle
  /\ steps' = steps + 1
  /\ ref' = RefUpdate(ref)
  /\ UNCHANGED <<op, toggled, first, seed, track, view, twin, snap>>

NextLoop ==
  \/ UpdateCalled
  \/ LoopCell
  \/ LoopSwap

SpecLoop == InitLoop /\ [][NextLoop]_vars

\* update() runs on the caller's thread: a call that has begun goes on to
\* its next statement.
SpecLoopFair == SpecLoop /\ WF_vars(LoopCell) /\ WF_vars(LoopSwap)

\* ------------------------------------------------------------------------
\* SpecOrder: as SpecLoop, the cells evaluated in any order
\* ------------------------------------------------------------------------
InitOrder == InitCells(MaxOrderCells)

OrderCell ==
  /\ loop.pc = "cells"
  /\ \E x \in 0 .. C - 1, y \in 0 .. R - 1 :
       /\ track.evaluated[convert_indices(x, y, C)] = 0
       /\ EvaluateCell(x, y)
  /\ UNCHANGED <<loop, op, toggled, steps, first, seed, view, twin, ref, snap>>

OrderSwap ==
  /\ loop.pc = "cells"
  /\ \A i \in Cells : track.evaluated[i] = 1
  /\ SwapRoles
  /\ loop' = Idle
  /\ steps' = steps + 1
  /\ ref' = RefUpdate(ref)
  /\ UNCHANGED <<op, toggled, first, seed, track, view, twin, snap>>

NextOrder ==
  \/ UpdateCalled
  \/ OrderCell
  \/ OrderSwap

SpecOrder == InitOrder /\ [][NextOrder]_vars

\* ------------------------------------------------------------------------
\* SpecView: as Spec, and the caller may take a view of the grid
\* ------------------------------------------------------------------------
CallGetGrid ==
  /\ getGrid
  /\ op' = Call("getGrid", 0, 0)
  /\ snap' = NoSnap
  /\ UNCHANGED <<toggled, steps, first, seed, loop, track, twin, ref>>

NextView ==
  \/ Next
  \/ CallGetGrid

InitView == InitUpTo(MaxViewCells)

SpecView == InitView /\ [][NextView]_vars

\* ------------------------------------------------------------------------
\* Claims checked under Spec
\* ------------------------------------------------------------------------
\* C2: update() called while paused changes no cell of either buffer, nor
\* the role assignment, nor the paused flag.
C2_PausedUpdateIsNoOp ==
  [][(op'.name = "update" /\ pause_) =>
       UNCHANGED <<grid1_, grid2_, grid_, current_grid_, next_grid_, pause_>>]_vars

C2_Witness ==
  /\ op.name = "update"
  /\ pause_
  /\ grid_
  /\ ~AllOff(Heap[current_grid_])
  /\ ~AllOff(Heap[next_grid_])

\* C3: right after construction both buffers have C*R cells, all DEAD, and
\* the engine is paused; until the first togglePause() the engine stays
\* paused and update() calls leave both buffers as they are.
C3_ConstructedDeadAndPaused ==
  /\ DOMAIN grid1_ = Cells /\ DOMAIN grid2_ = Cells
  /\ AllOff(grid1_) /\ AllOff(grid2_)
  /\ pause_ = TRUE
  /\ [](~toggled => pause_)
  /\ [][(~toggled /\ op'.name = "update") => UNCHANGED <<grid1_, grid2_>>]_vars

C3_Witness ==
  /\ op.name = "update"
  /\ ~toggled
  /\ AllOff(grid1_) /\ AllOff(grid2_)
  /\ C * R > 1

\* C4: clear() sets every cell of both buffers to DEAD and keeps the paused
\* flag and the roles; an unpaused update() right after clear() leaves the
\* current grid entirely DEAD.
C4_ClearResetsBothBuffers ==
  /\ [][op'.name = "clear" =>
          /\ AllOff(grid1_') /\ AllOff(grid2_')
          /\ UNCHANGED <<pause_, grid_, current_grid_, next_grid_>>]_vars
  /\ [][(op.name = "clear" /\ op'.name = "update" /\ ~pause_) =>
          AllOff(Heap'[current_grid_'])]_vars

C4_Witness ==
  /\ op.name = "clear"
  /\ ~pause_
  /\ grid_
  /\ AllOff(grid1_) /\ AllOff(grid2_)

\* C5: with in-range coordinates setCell(x, y) makes cell x + y*C of the
\* current buffer ALIVE and unsetCell(x, y) makes it DEAD; every other cell
\* of the current buffer, the whole next buffer, the roles and the paused
\* flag stay as they were.
C5_SetCellTouchesOneCurrentCell ==
  [][(op'.name \in {"setCell", "unsetCell"} /\ InRange(op'.x, op'.y)) =>
       LET i == op'.x + op'.y * C
           v == IF op'.name = "setCell" THEN ON ELSE OFF
       IN  /\ Heap'[current_grid_][i] = v
           /\ \A j \in Cells : j # i => Heap'[current_grid_][j] = Heap[current_grid_][j]
           /\ Heap'[next_grid_] = Heap[next_grid_]
           /\ UNCHANGED <<grid_, current_grid_, next_grid_, pause_>>]_vars

C5_Witness ==
  /\ op = Call("setCell", 0, 1)
  /\ C = 2 /\ R = 2
  /\ grid_
  /\ Heap[current_grid_] = [i \in Cells |-> IF i = 2 THEN ON ELSE OFF]
  /\ ~AllOff(Heap[next_grid_])

\* C7: the current and the next buffer are always the two distinct buffers
\* grid1_ and grid2_; an unpaused update() leaves the buffer it reads (the
\* current one) unwritten, fills the next one from the current one alone,
\* and swaps the roles; no other call changes the roles.
C7_DoubleBuffering ==
  /\ [](current_grid_ # next_grid_ /\ {current_grid_, next_grid_} = {"grid1_", "grid2_"})
  /\ [][IF op'.name = "update" /\ ~pause_
          THEN /\ Heap'[current_grid_] = Heap[current_grid_]
               /\ Heap'[next_grid_] = RefLife(Heap[current_grid_])
               /\ grid_' = ~grid_
               /\ current_grid_' = next_grid_
               /\ next_grid_' = current_grid_
          ELSE UNCHANGED <<grid_, current_grid_, next_grid_>>]_vars

C7_Witness ==
  /\ op.name = "update"
  /\ ~pause_
  /\ ~grid_
  /\ current_grid_ = "grid2_"
  /\ ~AllOff(Heap[next_grid_])
  /\ Heap[current_grid_] # Heap[next_grid_]

\* ------------------------------------------------------------------------
\* Claims checked under SpecRaw
\* ------------------------------------------------------------------------
\* C6: a setCell/unsetCell call with out-of-range coordinates is rejected
\* and changes no cell of either buffer; stated for the calls the claim
\* singles out, those whose index x + y*C falls inside the buffer (a store
\* at any other index is undefined behaviour).
C6_OutOfRangeNeverChangesACell ==
  [][(/\ op'.name \in {"setCell", "unsetCell"}
      /\ ~InRange(op'.x, op'.y)
      /\ op'.x + op'.y * C \in Cells) =>
       UNCHANGED <<grid1_, grid2_>>]_vars

\* ------------------------------------------------------------------------
\* Claims checked under SpecStep
\* ------------------------------------------------------------------------
\* C1: after an unpaused update() a cell of the new current grid is ALIVE
\* exactly when, in the current grid before the call, it was DEAD with
\* exactly 3 ALIVE toroidal neighbours or ALIVE with exactly 2 or 3; in
\* every other case it is DEAD.
C1_LifeRule ==
  [][(op'.name = "update" /\ ~pause_) =>
       \A x \in 0 .. C - 1, y \in 0 .. R - 1 :
         LET i   == x + y * C
             was == Heap[current_grid_][i]
             n   == RefNeighbours(Heap[current_grid_], x, y)
             now == Heap'[current_grid_'][i]
         IN  /\ now \in CellState
             /\ (now = ON) <=> ((was = OFF /\ n = 3) \/ (was = ON /\ n \in {2, 3}))]_vars

\* After one generation on a 4x2 grid (the old generation is still in the
\* next buffer): a birth, a death and a survival happened.
C1_Witness ==
  /\ op.name = "update"
  /\ steps = 1
  /\ C = 4 /\ R = 2
  /\ \E i, j, k \in Cells :
       /\ Heap[next_grid_][i] = OFF /\ Heap[current_grid_][i] = ON
       /\ Heap[next_grid_][j] = ON /\ Heap[current_grid_][j] = OFF
       /\ Heap[next_grid_][k] = ON /\ Heap[current_grid_][k] = ON

\* C8 as stated: after exactly two successive unpaused update() calls the
\* buffer that was current before the first call is the next buffer again.
C8_FirstCurrentIsNextAfterTwo ==
  steps = 2 => next_grid_ = first

\* C8 as amended: after exactly two successive unpaused update() calls the
\* buffer that was current before the first call is the current buffer
\* again; it is the next buffer after the first of the two calls.
C8_FirstCurrentIsCurrentAfterTwo ==
  /\ steps = 1 => (next_grid_ = first /\ current_grid_ # first)
  /\ steps = 2 => (current_grid_ = first /\ next_grid_ # first)

C8_Witness ==
  /\ steps = 2
  /\ op.name = "update"
  /\ first = "grid1_"
  /\ ~AllOff(Heap[current_grid_])

\* ------------------------------------------------------------------------
\* Claims checked under SpecGlider
\* ------------------------------------------------------------------------
\* The grid whose only ALIVE cells are the glider seeded at (ox, oy) and
\* translated by (dx, dy) modulo the grid size.
GliderAt(dx, dy) ==
  [i \in Cells |->
     IF \E n \in 1 .. Len(Glider) :
          i = ((Glider[n][1] + seed.ox + dx) % C) + ((Glider[n][2] + seed.oy + dy) % R) * C
       THEN ON ELSE OFF]

\* C9: on the 8x8 torus the glider, seeded at any position on an otherwise
\* DEAD grid, is after 4 unpaused update() calls the same shape translated
\* by (1, 1) modulo the grid size.
C9_GliderOn8x8 ==
  (C = 8 /\ R = 8 /\ seed.k = Len(Glider) /\ steps = 4) =>
    Heap[current_grid_] = GliderAt(1, 1)

\* A glider seeded across both edges of the 8x8 torus has made its 4 steps.
C9_Witness ==
  /\ C = 8 /\ R = 8
  /\ seed = [ox |-> 7, oy |-> 6, k |-> Len(Glider)]
  /\ steps = 4
  /\ op.name = "update"
  /\ ~AllOff(Heap[current_grid_])

\* C10 as stated: on every torus with C >= 3 and R >= 3 the seeded glider
\* is after 4 unpaused update() calls the same shape translated by (1, 1).
C10_GliderOnEveryTorusFrom3 ==
  (C >= 3 /\ R >= 3 /\ seed.k = Len(Glider) /\ steps = 4) =>
    Heap[current_grid_] = GliderAt(1, 1)

\* C10 as amended: the same on every torus with C >= 5 and R >= 5.
C10_GliderOnEveryTorusFrom5 ==
  (C >= 5 /\ R >= 5 /\ seed.k = Len(Glider) /\ steps = 4) =>
    Heap[current_grid_] = GliderAt(1, 1)

\* The glider has made its 4 steps on the smallest torus that carries it,
\* and on a torus that is not square.
C10_Witness ==
  /\ C = 5 /\ R = 6
  /\ seed.k = Len(Glider)
  /\ seed.ox = 4 /\ seed.oy = 5
  /\ steps = 4
  /\ Heap[current_grid_] = GliderAt(1, 1)

\* ------------------------------------------------------------------------
\* Claims checked under SpecBlock
\* ------------------------------------------------------------------------
\* The grid whose only ALIVE cells are the block with its corner at (ox, oy).
BlockAt(ox, oy) ==
  [i \in Cells |->
     IF \E k \in 1 .. Len(Block) :
          i = ((Block[k][1] + ox) % C) + ((Block[k][2] + oy) % R) * C
       THEN ON ELSE OFF]

\* C11: on the 10x10 torus seeded with nothing but a 2x2 block, the current
\* grid is the seeded grid after every number of unpaused update() calls,
\* whichever of the two buffers is current.
C11_BlockIsStillLife ==
  (C = 10 /\ R = 10 /\ seed.k = Len(Block)) =>
    Heap[current_grid_] = BlockAt(seed.ox, seed.oy)

C11_Witness ==
  /\ C = 10
  /\ R = 10
  /\ seed.ox = 9
  /\ seed.oy = 9
  /\ steps >= 3
  /\ current_grid_ # first
  /\ Heap[current_grid_] = BlockAt(9, 9)

\* ------------------------------------------------------------------------
\* Claims checked under SpecStep: degenerate grids
\* ------------------------------------------------------------------------
\* C12: where C or R is 1 or 2, the neighbour count of every cell is the
\* number of the 8 offsets whose wrapped target is ALIVE, a cell counting
\* once per offset that reaches it, the cell itself included; on the 1x1
\* grid an ALIVE cell has neighbour count 8 and is DEAD after one unpaused
\* update().
C12_DegenerateGridsCountPerOffset ==
  [][(op'.name = "update" /\ ~pause_ /\ (C \in {1, 2} \/ R \in {1, 2})) =>
       /\ \A x \in 0 .. C - 1, y \in 0 .. R - 1 :
            countAliveNeighbors(Heap[current_grid_], x, y)
              = RefNeighbours(Heap[current_grid_], x, y)
       /\ (C = 1 /\ R = 1 /\ Heap[current_grid_][0] = ON) =>
            /\ countAliveNeighbors(Heap[current_grid_], 0, 0) = 8
            /\ Heap'[current_grid_'][0] = OFF]_vars

\* The ALIVE cell of a 1x1 grid has just died: the old generation is in
\* the inactive buffer.
C12_Witness ==
  /\ op.name = "update"
  /\ steps = 1
  /\ Heap[current_grid_][0] = OFF
  /\ Heap[next_grid_][0] = ON
  /\ C = 1
  /\ R = 1

\* ------------------------------------------------------------------------
\* Claims checked under SpecTwin
\* ------------------------------------------------------------------------
\* C13: two engines of the same dimensions that start with identical current
\* grids and paused flags and receive the same calls have identical current
\* grids (and paused flags) after every call, whatever their inactive
\* buffers held at the start.
C13_SameCallsSameCurrentGrid ==
  twin.present =>
    /\ Heap[current_grid_] = twin[twin.current_grid_]
    /\ pause_ = twin.pause_

\* After an unpaused update() of two engines whose inactive buffers differed
\* and whose roles were assigned differently; the grid is neither empty nor
\* full.
C13_Witness ==
  /\ twin.present
  /\ op.name = "update"
  /\ ~pause_
  /\ C = 2
  /\ R = 2
  /\ current_grid_ # twin.current_grid_
  /\ Heap[next_grid_] = twin[twin.next_grid_]
  /\ \E i \in Cells, j \in Cells :
       Heap[next_grid_][i] = ON /\ Heap[next_grid_][j] = OFF

\* ------------------------------------------------------------------------
\* Claims checked under Spec: togglePause
\* ------------------------------------------------------------------------
\* C14: togglePause() negates the paused flag and changes no cell of either
\* buffer and no role; after two consecutive togglePause() calls the program
\* state is exactly the state before the first of them.
C14_TogglePauseOnlyNegatesFlag ==
  [][op'.name = "togglePause" =>
       /\ pause_' = ~pause_
       /\ UNCHANGED <<C, R, grid1_, grid2_, grid_, current_grid_, next_grid_, crashed>>
       /\ op.name = "togglePause" => (snap.taken /\ Program' = snap.state)]_vars

\* Right after the second of two consecutive togglePause() calls, on a grid
\* with live cells in both buffers and grid1_ current.
C14_Witness ==
  /\ op.name = "togglePause"
  /\ snap.after = "togglePause"
  /\ grid_
  /\ ~pause_
  /\ ~AllOff(Heap[current_grid_])
  /\ ~AllOff(Heap[next_grid_])

\* ------------------------------------------------------------------------
\* Claims checked under SpecStep: the wrap of countAliveNeighbors
\* ------------------------------------------------------------------------
\* C16: for every cell (x, y) in range and every offset (dx, dy) in
\* {-1,0,1} x {-1,0,1}, the branch-based wrap yields (x+dx) mod C and
\* (y+dy) mod R, and the neighbour index neighbor_x + neighbor_y*C lies in
\* 0..C*R-1.
C16_WrapIsModulo ==
  \A x \in 0 .. C - 1, y \in 0 .. R - 1, dx \in Offsets, dy \in Offsets :
    /\ wrap(x + dx, C) = (x + dx) % C
    /\ wrap(y + dy, R) = (y + dy) % R
    /\ convert_indices(wrap(x + dx, C), wrap(y + dy, R), C) \in Cells

\* update() has evaluated a grid of one column, where x - 1 and x + 1 both
\* wrap to the cell's own column and the rows wrap from edge to edge.
C16_Witness ==
  /\ op.name = "update"
  /\ steps >= 1
  /\ C = 1
  /\ R = MaxStepCells
  /\ wrap(0 - 1, C) = 0
  /\ wrap(0 + 1, C) = 0
  /\ wrap(0 - 1, R) = R - 1
  /\ wrap(R - 1 + 1, R) = 0
  /\ ~AllOff(Heap[next_grid_])

\* ------------------------------------------------------------------------
\* Claims checked under SpecOrder
\* ------------------------------------------------------------------------
AllEvaluated == \A i \in Cells : track.evaluated[i] = 1

\* C15: when the C*R per-cell evaluations of an unpaused update() happen one
\* at a time in any order, the next buffer at the role swap is the one the
\* x-major loops of the code produce, and no evaluation reads a cell that an
\* earlier evaluation of the same update() has stored into.
C15_OrderOfEvaluationIsIrrelevant ==
  /\ []((loop.pc = "cells" /\ AllEvaluated) =>
          Heap[next_grid_] = updateLoopX(snap.state, 0)[snap.state.next_grid_])
  /\ []((loop.pc = "idle" /\ snap.taken) =>
          Heap[current_grid_] = updateOf(snap.state)[updateOf(snap.state).current_grid_])
  /\ [][loop.pc = "cells" =>
          \A x \in 0 .. C - 1, y \in 0 .. R - 1 :
            track'.evaluated[convert_indices(x, y, C)]
                # track.evaluated[convert_indices(x, y, C)] =>
              \A s \in readsOf(Heap, x, y) : track.stores[s] = 0]_vars

\* On the 4x1 grid the last two cells in x-major order have been evaluated
\* before the first, and a birth has been stored.
C15_Witness ==
  /\ C = 4
  /\ R = 1
  /\ loop.pc = "cells"
  /\ track.evaluated[0] = 0
  /\ track.evaluated[2] = 1
  /\ track.evaluated[3] = 1
  /\ Heap[current_grid_][3] = OFF
  /\ Heap[next_grid_][3] = ON

\* ------------------------------------------------------------------------
\* Claims checked under SpecLoopFair
\* ------------------------------------------------------------------------
\* The loops have ended and the swap has not begun.
LoopsDone == loop.pc = "cells" /\ ~(loop.x < C)

\* Every update() call that begins its loops returns.
UpdateTerminates == (loop.pc = "cells") ~> (loop.pc = "idle")

\* The roles change only in the step that ends a call whose loops have
\* evaluated every cell, and a call changes them once.
SwapsOnce ==
  [][(current_grid_' # current_grid_ \/ next_grid_' # next_grid_ \/ grid_' # grid_) =>
       /\ LoopsDone
       /\ AllEvaluated
       /\ loop'.pc = "idle"
       /\ grid_' = ~snap.state.grid_]_vars

\* Between calls the current grid is entirely the old generation (no call,
\* or a paused call) or entirely its successor; during a call it is the old
\* generation.
NeverPartlyNew ==
  /\ [](loop.pc = "cells" =>
          Heap[current_grid_] = snap.state[snap.state.current_grid_])
  /\ []((loop.pc = "idle" /\ snap.taken) =>
          Heap[current_grid_] = RefLife(snap.state[snap.state.current_grid_]))
  /\ []((loop.pc = "idle" /\ ~snap.taken) => Heap[current_grid_] = ref.grid)

\* C17, as stated: every update() call terminates, and an unpaused update()
\* stores into each of the C*R cells of the next buffer exactly once and then
\* swaps the roles exactly once, so that between calls the current grid is
\* never partly old and partly new.
C17_EachCellStoredExactlyOnce ==
  /\ UpdateTerminates
  /\ [](LoopsDone => \A i \in Cells : track.stores[<<next_grid_, i>>] = 1)
  /\ SwapsOnce
  /\ NeverPartlyNew

\* C17, amended: every update() call terminates, and an unpaused update()
\* evaluates each of the C*R cells exactly once, storing into that cell of
\* the next buffer once, and a second time when a birth or death rule
\* changes it, storing nowhere else, and then swaps the roles exactly once,
\* so that between calls the current grid is never partly old and partly new.
C17_EachCellEvaluatedExactlyOnce ==
  /\ UpdateTerminates
  /\ [](LoopsDone =>
          \A i \in Cells :
            /\ track.evaluated[i] = 1
            /\ track.stores[<<current_grid_, i>>] = 0
            /\ track.stores[<<next_grid_, i>>]
                 = IF Heap[next_grid_][i] # Heap[current_grid_][i] THEN 2 ELSE 1)
  /\ SwapsOnce
  /\ NeverPartlyNew

\* The loops of an update() of the 3x2 grid have ended: one cell was stored
\* into twice, another once.
C17_Witness ==
  /\ C = 3
  /\ R = 2
  /\ LoopsDone
  /\ AllEvaluated
  /\ \E i \in Cells, j \in Cells :
       /\ track.stores[<<next_grid_, i>>] = 2
       /\ track.stores[<<next_grid_, j>>] = 1

\* ------------------------------------------------------------------------
\* Claims checked under Spec: the single-grid reference machine
\* ------------------------------------------------------------------------
\* C18: after every sequence of in-range setCell/unsetCell, clear,
\* togglePause and update calls the current grid and the paused flag are
\* those of the reference machine, which keeps one grid and replaces it by
\* its Life successor on each unpaused update; what the inactive buffer
\* holds never shows.
C18_RefinesSingleGridMachine ==
  /\ Heap[current_grid_] = ref.grid
  /\ pause_ = ref.paused

\* After a second unpaused update(), which wrote the generation over a
\* buffer that held live cells of an earlier generation; the inactive buffer
\* differs from the current grid.
C18_Witness ==
  /\ op.name = "update"
  /\ ~pause_
  /\ ~grid_
  /\ C = 1
  /\ R = 4
  /\ ref.grid = Heap[current_grid_]
  /\ ~AllOff(Heap[current_grid_])
  /\ ~AllOff(Heap[next_grid_])
  /\ Heap[next_grid_] # Heap[current_grid_]

\* ------------------------------------------------------------------------
\* Claims checked under SpecView
\* ------------------------------------------------------------------------
\* C19: a view taken by getGrid() before an unpaused update() refers after
\* that update() to the inactive buffer and still holds the generation from
\* before the step; while it refers to the inactive buffer, setCell and
\* unsetCell do not change its cells, and its cells change only at a clear()
\* or at the next unpaused update(), which makes it the successor of the
\* then-current generation.
C19_ViewHoldsOldGeneration ==
  [][/\ (op'.name = "update" /\ ~pause_ /\ view = current_grid_) =>
          /\ view' = view
          /\ view = next_grid_'
          /\ Heap'[view] = Heap[current_grid_]
     /\ (op'.name \in {"setCell", "unsetCell"} /\ view = next_grid_) =>
          Heap'[view] = Heap[view]
     /\ (view = next_grid_ /\ Heap'[view] # Heap[view]) =>
          \/ op'.name = "clear"
          \/ /\ op'.name = "update"
             /\ ~pause_
             /\ Heap'[view] = RefLife(Heap[current_grid_])]_vars

\* A setCell call after the step that followed getGrid(): the view refers
\* to the inactive buffer, which holds live cells and differs from the
\* current grid in the cell just set.
C19_Witness ==
  /\ op.name = "setCell"
  /\ view = next_grid_
  /\ grid_
  /\ ~AllOff(Heap[view])
  /\ Heap[current_grid_][convert_indices(op.x, op.y, C)] = ON
  /\ Heap[view][convert_indices(op.x, op.y, C)] = OFF

====
